---- MODULE Spec2Model ----
(***************************************************************************)
(* quantum-fsm: the fixed-substring-matching circuit builder.              *)
(*                                                                         *)
(* Every gate of src/gates.py is built from X, CX, CCX, MCX and SWAP only, *)
(* and every register starts in a classical basis state, so a circuit is   *)
(* a sequence of reversible boolean instructions and running it is a fold  *)
(* over a bit assignment.  Rendering (qc.draw), credentials and the remote *)
(* sampler are outside the model.                                          *)
(*                                                                         *)
(* Qubits are numbered in the order _FSMInstance.__init__ hands the        *)
(* registers to QuantumCircuit: X, Y, d, lambda_0.., D-1, D_0.., anc, out. *)
(* A register is the sequence of its qubits; Python's reg[i] is reg[i+1].  *)
(***************************************************************************)
EXTENDS Integers, Sequences, FiniteSets, TLC

\* ------------------------------------------------------------------ bounds
\* Longest input string x, y drawn for the build/apply/revert/execute calls.
MaxLen == 2
\* Longest input string x, y drawn for the constructor alone.
MaxText == 3
\* Largest substring length d drawn (d ranges over 0..MaxD).
MaxD == 4
\* Number of build/apply/revert/execute calls made on one instance.
MaxCalls == 3
\* Largest register handed to a single gate of the gate library.
MaxReg == 4
\* Largest extension order / rotation exponent handed to a single gate.
MaxOrder == 3
\* Largest string length n the ancilla slicing of build() is laid out for.
MaxN == 8

\* ----------------------------------------------------------- Python idioms
At(reg, i) == reg[i + 1]

RECURSIVE Flat(_)
Flat(ss) == IF Len(ss) = 0 THEN << >> ELSE Head(ss) \o Flat(Tail(ss))

\* range(lo, hi) as a sequence
Range(lo, hi) == [k \in 1..(IF hi > lo THEN hi - lo ELSE 0) |-> lo + k - 1]

RECURSIVE Log2Floor(_)
Log2Floor(v) == IF v < 2 THEN 0 ELSE 1 + Log2Floor(v \div 2)

Log2Ceil(v) == IF v < 2 THEN 0 ELSE 1 + Log2Floor(v - 1)

CeilHalf(v) == (v + 1) \div 2

\* bin(v)[2:], most significant digit first
RECURSIVE Bin(_)
Bin(v) == IF v < 2 THEN << (IF v = 1 THEN "1" ELSE "0") >>
          ELSE Bin(v \div 2) \o << (IF v % 2 = 1 THEN "1" ELSE "0") >>

\* int(f"0b{s}", base=0) succeeds: binary digits, with single underscores
\* allowed after the prefix and between digits (the literal grammar int()
\* follows when base is 0).
IsBinLiteral(s) ==
    /\ Len(s) > 0
    /\ \A k \in 1..Len(s) : s[k] \in {"0", "1", "_"}
    /\ s[Len(s)] # "_"
    /\ \A k \in 1..(Len(s) - 1) : ~(s[k] = "_" /\ s[k + 1] = "_")

\* ------------------------------------------------------------ instructions
\* c: controls that must be 1, n: controls that must be 0, t: targets.
X(q) == [op |-> "x", c |-> << >>, n |-> << >>, t |-> <<q>>]
CX(a, b) == [op |-> "x", c |-> <<a>>, n |-> << >>, t |-> <<b>>]
CCX(a, b, r) == [op |-> "x", c |-> <<a, b>>, n |-> << >>, t |-> <<r>>]
MCX(cs, r) == [op |-> "x", c |-> cs, n |-> << >>, t |-> <<r>>]
SWAP(a, b) == [op |-> "swap", c |-> << >>, n |-> << >>, t |-> <<a, b>>]

\* What a gate function returns: the gate (to_gate) over the qubits of its
\* own QuantumCircuit, in the order the circuit was given them, or the
\* exception it raised.
Gate(label, qubits, ops) ==
    [err |-> "none", label |-> label, qubits |-> qubits, ops |-> ops]
Raise(e) == [err |-> e, label |-> "", qubits |-> << >>, ops |-> << >>]

\* ------------------------------------------------------------ src/gates.py
fanout(src, x) ==
    LET size == Len(x)
        levels == [a \in 1..Log2Ceil(size) |->
                     LET j == 2 ^ (a - 1)
                     IN [b \in 1..j |-> <<b - 1, j + b - 1>>]]
        pairs == Flat(levels)
    IN IF size = 0 \/ \E k \in 1..Len(pairs) : pairs[k][2] >= size
       THEN Raise("IndexError")
       ELSE Gate("FAN", <<src>> \o x,
                 <<CX(src, At(x, 0))>>
                 \o [k \in 1..Len(pairs) |->
                       CX(At(x, pairs[k][1]), At(x, pairs[k][2]))])

match(x, y, result) ==
    IF Len(x) # Len(y) THEN Raise("ValueError")
    ELSE IF Len(result) > Len(x) THEN Raise("IndexError")
    ELSE LET toff == [k \in 1..Len(result) |-> CCX(x[k], y[k], result[k])]
             nots == Flat([k \in 1..Len(x) |-> <<X(x[k]), X(y[k])>>])
         IN Gate("M(x,y)", x \o y \o result, toff \o nots \o toff \o nots)

\* extend with the partner cell taken 2^i cells away.
extend_stride(bitvec, result, i) ==
    LET size == Len(result)
        all == Range(0, size)
        inside(j) == ~(j + 2 ^ i >= size)
        visited == SelectSeq(all, inside)
    IN Gate("EXT", bitvec \o result,
            [k \in 1..Len(visited) |->
               CCX(At(bitvec, visited[k]), At(bitvec, visited[k] + 2 ^ i),
                   At(result, visited[k]))])

extend(bitvec, result, i) ==
    LET size == Len(result)
        all == Range(0, size)
        even(j) == j % 2 = 0
        odd(j) == j % 2 = 1
        pos_list == IF i # 1 THEN all
                    ELSE SelectSeq(all, even) \o SelectSeq(all, odd)
        inside(j) == ~(j + 2 ^ (i - 1) >= size)
        visited == SelectSeq(pos_list, inside)
    IN IF i < 1 THEN Raise("TypeError")
       ELSE IF Len(visited) > 0 /\ Len(bitvec) < size THEN Raise("IndexError")
       ELSE Gate("EXT", bitvec \o result,
                 [k \in 1..Len(visited) |->
                    CCX(At(bitvec, visited[k]),
                        At(bitvec, visited[k] + 2 ^ (i - 1)),
                        At(result, visited[k]))])

reverse(x) ==
    Gate("REV", x,
         [k \in 1..(Len(x) \div 2) |-> SWAP(At(x, k - 1), At(x, Len(x) - 1 - (k - 1)))])

bitwise_cand_anc(ctrl, x, y, anc, result) ==
    IF Len(anc) # Len(x) \/ Len(anc) # Len(y) - 1 THEN Raise("ValueError")
    ELSE LET fan == fanout(ctrl, anc)
         IN IF fan.err # "none" THEN Raise(fan.err)
            ELSE IF Len(result) < Len(x) THEN Raise("IndexError")
            ELSE Gate("CAND", <<ctrl>> \o anc \o x \o y \o result,
                      fan.ops
                      \o [k \in 1..Len(x) |-> MCX(<<anc[k], x[k], y[k]>>, result[k])])

\* unary_or without the closing qc.x(r).
unary_or_open(x, r) ==
    LET nots == [k \in 1..Len(x) |-> X(x[k])]
    IN Gate("OR", x \o r, nots \o <<MCX(x, r[1])>> \o nots)

unary_or(x, r) ==
    LET nots == [k \in 1..Len(x) |-> X(x[k])]
    IN Gate("OR", x \o r, nots \o <<MCX(x, r[1])>> \o nots \o <<X(r[1])>>)

copy(x, result) ==
    IF Len(result) > Len(x) THEN Raise("IndexError")
    ELSE Gate("CRC", x \o result, [k \in 1..Len(result) |-> CX(x[k], result[k])])

rot(x, k) ==
    LET size == Len(x)
        first == [i \in 1..(CeilHalf(size) - 1) |-> SWAP(At(x, i), At(x, size - i))]
        second == [j \in 1..(CeilHalf(size) - 1) |->
                     SWAP(At(x, (CeilHalf(k) - j) % size),
                          At(x, ((k \div 2) + j) % size))]
    IN Gate("ROT", x, first \o second)

\* ------------------------------------------------------- running a circuit
Enabled(s, ins) ==
    /\ \A k \in 1..Len(ins.c) : s[ins.c[k]] = 1
    /\ \A k \in 1..Len(ins.n) : s[ins.n[k]] = 0

Step(s, ins) ==
    IF ~Enabled(s, ins) THEN s
    ELSE IF ins.op = "x" THEN [s EXCEPT ![ins.t[1]] = 1 - @]
    ELSE [s EXCEPT ![ins.t[1]] = s[ins.t[2]], ![ins.t[2]] = s[ins.t[1]]]

RECURSIVE RunFrom(_, _, _)
RunFrom(ops, s, k) ==
    IF k > Len(ops) THEN s ELSE RunFrom(ops, Step(s, ops[k]), k + 1)

RunOps(ops, s) == RunFrom(ops, s, 1)

\* ------------------------------------------------------------ program state
VARIABLES
    pc,            \* "start", "cli" (arguments accepted), "fsm", "inst", "rejected"
    x, y,          \* the input strings
    d,             \* the substring length
    mode,          \* "FPM", "FFP" or "SFSC"
    starting_pos,  \* << >> when the keyword argument is absent, else <<j>>
    qc,            \* _FSMInstance._qc: the gate list, in order
    cregs,         \* the classical registers _qc holds
    ready,         \* _FSMInstance._ready
    measured,      \* _FSMInstance._measured
    err,           \* the exception the last call raised, or "none"
    hist           \* the calls made on the instance so far, in order

\* Observation of the stage loop of build() and of single gates.
VARIABLES
    stage,         \* the next pass of the stage loop
    windows,       \* the ancilla windows the passes so far sliced
    tgate,         \* the gate function a caller invoked on its own registers
    tin,           \* the bits of those registers before the gate
    tout,          \* and after it
    tback          \* and after the gate that is to undo it, once that has run

prog == <<pc, x, y, d, mode, starting_pos, qc, cregs, ready, measured, err, hist>>
slicing == <<stage, windows>>
lab == <<tgate, tin, tout, tback>>
vars == <<prog, slicing, lab>>

\* ------------------------------------------------------- FSM (src/fsm.py)
n == Len(x)
dsize == Log2Floor(d) + 1
logn == Log2Floor(n)
AncWidth == 3 * (n \div 2) * dsize

\* The registers of FSM.regs, in dictionary order.
rx == Range(0, n)
ry == Range(n, 2 * n)
rd == Range(2 * n, 2 * n + dsize)
rli(i) == Range(2 * n + dsize + i * n, 2 * n + dsize + (i + 1) * n)
offD == 2 * n + dsize + dsize * n
rddinit == Range(offD, offD + n + 1)
rddi(i) == Range(offD + (i + 1) * (n + 1), offD + (i + 2) * (n + 1))
offAnc == offD + (dsize + 1) * (n + 1)
ranc == Range(offAnc, offAnc + AncWidth)
rout == Range(offAnc + AncWidth, offAnc + AncWidth + 1)
NumQubits == offAnc + AncWidth + 1

\* FSM.__init__: the exception it raises, or "none".
FSMInitError ==
    IF Len(x) = 0 \/ Len(y) = 0 THEN "ValueError"
    ELSE IF Len(x) # Len(y) THEN "ValueError"
    ELSE IF d < 2 THEN "ValueError"
    ELSE IF ~IsBinLiteral(x) \/ ~IsBinLiteral(y) THEN "TypeError"
    ELSE IF mode = "FFP" /\ (starting_pos = << >> \/ starting_pos[1] = 0)
         THEN "ValueError"
    ELSE "none"

\* __main__: the argument checks made before FSM is constructed.
MainError ==
    IF mode = "FFP" /\ (starting_pos = << >> \/ starting_pos[1] = 0)
         THEN "ParserError"
    ELSE IF Len(x) # Len(y) THEN "ParserError"
    ELSE IF Len(x) = 0 THEN "ValueError"
    ELSE IF 2 ^ Log2Floor(Len(x)) # Len(x) THEN "ParserError"
    ELSE "none"

\* ------------------------------------------------- _FSMInstance (src/fsm.py)
Rep(ch, k) == [j \in 1..(IF k > 0 THEN k ELSE 0) |-> ch]

\* The D-1 pattern string of _FSMInstance.__init__.
DDInitPattern ==
    IF mode = "FPM" THEN <<"1">> \o Rep("0", n)
    ELSE IF mode = "FFP"
         THEN Rep("0", starting_pos[1]) \o <<"1">> \o Rep("0", n - starting_pos[1])
    ELSE Rep("1", n + 1)

\* An entry of the gate list: op names the gate function, regs are its
\* operands (a single Qubit is a register of one), controls are
\* (qubit, reverse) pairs, params the keyword arguments.
FSMGate(op, regs, controls, params) ==
    [op |-> op, regs |-> regs, controls |-> controls, params |-> params]

NoParams == [p \in {} |-> 0]

NoGate == FSMGate("none", << >>, << >>, NoParams)

\* qc.x(q) and qc.measure(q, c), entered in the gate list directly.
XGate(q) == FSMGate("x", << <<q>> >>, << >>, NoParams)
MeasureGate(q) == FSMGate("measure", << <<q>> >>, << >>, NoParams)

\* for i, bit in enumerate(bits): if bit == "1": qc.x(reg[i])
SetBits(bits, reg) ==
    LET ones == SelectSeq(Range(0, Len(bits)), LAMBDA i : At(bits, i) = "1")
    IN IF \E k \in 1..Len(ones) : ones[k] >= Len(reg)
       THEN [err |-> "IndexError", gates |-> << >>]
       ELSE [err |-> "none",
             gates |-> [k \in 1..Len(ones) |-> XGate(At(reg, ones[k]))]]

\* _FSMInstance.__init__: the X gates that load d, x, y and D-1.
InitGates ==
    LET gd == SetBits(Bin(d), rd)
        gx == SetBits(x, rx)
        gy == SetBits(y, ry)
        gdd == SetBits(DDInitPattern, rddinit)
    IN IF gdd.err # "none" THEN gdd
       ELSE [err |-> "none", gates |-> gd.gates \o gx.gates \o gy.gates \o gdd.gates]

\* gate.op(*gate.regs, **gate.params): Python binds the operands by
\* position and the parameters by name.  fsm.py imports the name
\* bitwise_cand; the gate of gates.py that takes the five operands build()
\* passes is bitwise_cand_anc.  rot takes (x, k): a second positional
\* operand together with k=... is a TypeError.
Construct(g) ==
    CASE g.op = "x" -> Gate("x", g.regs[1], <<X(g.regs[1][1])>>)
      [] g.op = "measure" -> Gate("measure", g.regs[1], << >>)
      [] g.op = "reverse" -> reverse(g.regs[1])
      [] g.op = "match" -> match(g.regs[1], g.regs[2], g.regs[3])
      [] g.op = "extend" -> extend(g.regs[1], g.regs[2], g.params["i"])
      [] g.op = "bitwise_cand" ->
            bitwise_cand_anc(g.regs[1][1], g.regs[2], g.regs[3], g.regs[4], g.regs[5])
      [] g.op = "rot" ->
            IF Len(g.regs) # 1 THEN Raise("TypeError")
            ELSE rot(g.regs[1], IF "k" \in DOMAIN g.params THEN g.params["k"] ELSE 1)
      [] g.op = "copy" -> copy(g.regs[1], g.regs[2])
      [] g.op = "unary_or" -> unary_or(g.regs[1], g.regs[2])

\* The position of qubit q in a circuit's qubit list.
IndexOf(qubits, q) == CHOOSE k \in 1..Len(qubits) : qubits[k] = q

\* compose(gate, onto): the k-th qubit of the gate's own circuit acts on
\* onto[k].
Bind(qubits, onto, ins) ==
    [op |-> ins.op,
     c |-> [k \in 1..Len(ins.c) |-> onto[IndexOf(qubits, ins.c[k])]],
     n |-> [k \in 1..Len(ins.n) |-> onto[IndexOf(qubits, ins.n[k])]],
     t |-> [k \in 1..Len(ins.t) |-> onto[IndexOf(qubits, ins.t[k])]]]

\* .control(len(controls), ctrl_state): a control with reverse set must be 0.
Controlled(controls, ins) ==
    LET pos == SelectSeq(controls, LAMBDA cc : ~cc.reverse)
        neg == SelectSeq(controls, LAMBDA cc : cc.reverse)
    IN [op |-> ins.op,
        c |-> [k \in 1..Len(pos) |-> pos[k].qubit] \o ins.c,
        n |-> [k \in 1..Len(neg) |-> neg[k].qubit] \o ins.n,
        t |-> ins.t]

\* One pass of the loop of apply(): the gate list with the gate composed
\* onto it, or the exception.
ApplyOne(list, g) ==
    LET made == Construct(g)
    IN IF made.err # "none" THEN [err |-> made.err, list |-> list]
       ELSE IF Len(made.qubits) # Len(Flat(g.regs))
            THEN [err |-> "CircuitError", list |-> list]
       ELSE [err |-> "none", list |-> Append(list, g)]

\* What a composed gate does: its instructions on the qubits it was
\* composed onto, under its controls.
GateOps(g) ==
    LET made == Construct(g)
        gate_qubits == Flat(g.regs)
    IN [k \in 1..Len(made.ops) |->
          Controlled(g.controls, Bind(made.qubits, gate_qubits, made.ops[k]))]

\* Running a gate list on registers that start at |0>.
RunCircuit(list) ==
    RunOps(Flat([k \in 1..Len(list) |-> GateOps(list[k])]),
           [q \in 0..(NumQubits - 1) |-> 0])

RECURSIVE ApplyFrom(_, _, _)
ApplyFrom(list, gates, k) ==
    IF k > Len(gates) THEN [err |-> "none", list |-> list]
    ELSE LET one == ApplyOne(list, gates[k])
         IN IF one.err # "none" THEN one ELSE ApplyFrom(one.list, gates, k + 1)

\* apply(*gates): gates composed before the one that raises stay composed.
apply(list, gates) == ApplyFrom(list, gates, 1)

\* reg[a:b]
Slice(reg, a, b) ==
    LET hi == IF b < Len(reg) THEN b ELSE Len(reg)
    IN [k \in 1..(IF hi > a THEN hi - a ELSE 0) |-> reg[a + k]]

\* Stage windows packed n cells apart.
first_anc_packed(i) == i * n

first_anc_conj(i) == i * 3 * (n \div 2)
first_anc_rot(i) == first_anc_conj(i) + n

\* The two ancilla windows of pass i of the stage loop.
anc_cj(i) == Slice(ranc, first_anc_conj(i), first_anc_conj(i) + n)
anc_rot(i) == Slice(ranc, first_anc_rot(i), first_anc_rot(i) + (n \div 2))

ddall(i) == IF i = 0 THEN rddinit ELSE rddi(i - 1)

\* The gates of one pass of the stage loop of build().
StageGates(i) ==
    LET ctrl == [qubit |-> At(rd, i), reverse |-> FALSE]
        rctrl == [qubit |-> At(rd, i), reverse |-> TRUE]
        AND == FSMGate("bitwise_cand",
                       << <<At(rd, i)>>, rli(i), ddall(i), anc_cj(i), ddall(i + 1) >>,
                       << >>, NoParams)
        ROT == FSMGate("rot",
                       << ddall(i + 1), anc_rot(i) >>,
                       <<ctrl>>, "k" :> 2 ^ i)
        CRC == FSMGate("copy", << ddall(i), ddall(i + 1) >>, <<rctrl>>, NoParams)
    IN <<AND, ROT, CRC>>

\* Every gate build() hands to apply(), in order.
BuildGates ==
    LET REV == FSMGate("reverse", <<rd>>, << >>, NoParams)
        M == FSMGate("match", <<rx, ry, rli(0)>>, << >>, NoParams)
        EXT == [i \in 1..(dsize - 1) |->
                  FSMGate("extend", <<rli(i - 1), rli(i)>>, << >>, "i" :> i)]
        OR == FSMGate("unary_or", <<rddi(dsize - 1), rout>>, << >>, NoParams)
    IN <<REV, M>> \o EXT \o Flat([k \in 1..dsize |-> StageGates(k - 1)]) \o <<OR>>

\* build(): an exception leaves what was composed so far and skips
\* self._ready = True.
build(list) == apply(list, BuildGates)

\* ----------------------------------------------------------------- actions
Modes == {"FPM", "FFP", "SFSC"}

StringsOver(alphabet, longest) == UNION {[1..k -> alphabet] : k \in 0..longest}

Positions(longest) == {<< >>} \cup {<<p>> : p \in 0..(longest + 1)}

\* Before anything is constructed: the caller's arguments, with x and y
\* strings over the given alphabet.
InitOver(alphabet, longest) ==
    /\ pc = "start"
    /\ x \in StringsOver(alphabet, longest)
    /\ y \in StringsOver(alphabet, longest)
    /\ d \in 0..MaxD
    /\ mode \in Modes
    /\ starting_pos \in (IF mode = "FFP" THEN Positions(longest) ELSE {<< >>})
    /\ qc = << >>
    /\ cregs = {}
    /\ ready = FALSE
    /\ measured = FALSE
    /\ err = "none"
    /\ hist = << >>
    /\ stage = 0
    /\ windows = << >>
    /\ tgate = NoGate
    /\ tin = << >>
    /\ tout = << >>
    /\ tback = << >>

\* python -m quantum_fsm: the argument checks of __main__.
Main ==
    /\ pc = "start"
    /\ pc' = (IF MainError = "none" THEN "cli" ELSE "rejected")
    /\ err' = MainError
    /\ UNCHANGED <<x, y, d, mode, starting_pos, qc, cregs, ready, measured, hist, slicing, lab>>

\* FSM(x, y, d, mode, backend, starting_pos=...), from __main__ or a caller.
FSMInit ==
    /\ pc \in {"start", "cli"}
    /\ pc' = (IF FSMInitError = "none" THEN "fsm" ELSE "rejected")
    /\ err' = FSMInitError
    /\ UNCHANGED <<x, y, d, mode, starting_pos, qc, cregs, ready, measured, hist, slicing, lab>>

\* fsm.instantiate(): _FSMInstance.__init__.
Instantiate ==
    /\ pc = "fsm"
    /\ LET made == InitGates
       IN IF made.err # "none"
          THEN /\ pc' = "rejected"
               /\ err' = made.err
               /\ UNCHANGED <<qc, cregs>>
          ELSE /\ pc' = "inst"
               /\ err' = "none"
               /\ qc' = made.gates
               /\ cregs' = {"found", "begins"}
    /\ ready' = FALSE
    /\ measured' = FALSE
    /\ UNCHANGED <<x, y, d, mode, starting_pos, hist, slicing, lab>>

Build ==
    /\ pc = "inst"
    /\ Len(hist) < MaxCalls
    /\ LET done == build(qc)
       IN /\ qc' = done.list
          /\ err' = done.err
          /\ ready' = (IF done.err = "none" THEN TRUE ELSE ready)
    /\ hist' = Append(hist, "build")
    /\ UNCHANGED <<pc, x, y, d, mode, starting_pos, cregs, measured, slicing, lab>>

\* The gates a caller of the public apply() is taken to pass: the
\* disjunction gate of build() and the register reversal.
CallerGates ==
    { FSMGate("unary_or", <<rddi(dsize - 1), rout>>, << >>, NoParams),
      FSMGate("reverse", <<rd>>, << >>, NoParams) }

Apply ==
    /\ pc = "inst"
    /\ Len(hist) < MaxCalls
    /\ \E g \in CallerGates :
          LET done == apply(qc, <<g>>)
          IN /\ qc' = done.list
             /\ err' = done.err
    /\ hist' = Append(hist, "apply")
    /\ UNCHANGED <<pc, x, y, d, mode, starting_pos, cregs, ready, measured, slicing, lab>>

\* revert(): QuantumCircuit is handed one list, FSM.regs.values(), in which
\* the lambda and D registers are themselves lists.  Whether the library
\* takes such a list is not decided by this source, so both outcomes are
\* kept: the constructor raises and _qc stays, or _qc becomes a new circuit
\* over the quantum registers only.  _ready is not touched either way.
Revert ==
    /\ pc = "inst"
    /\ Len(hist) < MaxCalls
    /\ \/ /\ err' = "CircuitError"
          /\ UNCHANGED <<qc, cregs>>
       \/ /\ qc' = << >>
          /\ cregs' = {}
          /\ err' = "none"
    /\ hist' = Append(hist, "revert")
    /\ UNCHANGED <<pc, x, y, d, mode, starting_pos, ready, measured, slicing, lab>>

\* execute() without the check of self.ready.
ExecuteNoGuard ==
    /\ pc = "inst"
    /\ Len(hist) < MaxCalls
    /\ err' = "none"
    /\ qc' = Append(qc, MeasureGate(rout[1]))
    /\ measured' = TRUE
    /\ hist' = Append(hist, "execute")
    /\ UNCHANGED <<pc, x, y, d, mode, starting_pos, cregs, ready, slicing, lab>>

\* execute(): the account, the transpiler and the sampler are left out.
Execute ==
    /\ pc = "inst"
    /\ Len(hist) < MaxCalls
    /\ IF ~ready
       THEN /\ err' = "RuntimeError"
            /\ UNCHANGED <<qc, measured>>
       ELSE /\ err' = "none"
            /\ qc' = Append(qc, MeasureGate(rout[1]))
            /\ measured' = TRUE
    /\ hist' = Append(hist, "execute")
    /\ UNCHANGED <<pc, x, y, d, mode, starting_pos, cregs, ready, slicing, lab>>

Init == InitOver({"0", "1"}, MaxLen)

Next == Main \/ FSMInit \/ Instantiate \/ Build \/ Apply \/ Revert \/ Execute

Spec == Init /\ [][Next]_vars

\* The same calls on strings of one symbol, which keeps the instances few.
InitCalls == InitOver({"1"}, MaxLen)

SpecCalls == InitCalls /\ [][Next]_vars

\* Construction alone, over strings that need not be binary.
InitInput == InitOver({"0", "1", "_"}, MaxText)

NextInput == Main \/ FSMInit \/ Instantiate

SpecInput == InitInput /\ [][NextInput]_vars

\* ------------------------------------------- the stage loop's ancilla windows
\* An instance as _FSMInstance.__init__ leaves it, for strings of every
\* length up to MaxN (the slicing reads only n and the bit length of d).
InitAnc ==
    /\ pc = "inst"
    /\ x \in {Rep("1", k) : k \in 1..MaxN}
    /\ y = x
    /\ d \in 2..MaxD
    /\ mode \in Modes
    /\ starting_pos = (IF mode = "FFP" THEN <<1>> ELSE << >>)
    /\ qc = InitGates.gates
    /\ cregs = {"found", "begins"}
    /\ ready = FALSE
    /\ measured = FALSE
    /\ err = "none"
    /\ hist = << >>
    /\ stage = 0
    /\ windows = << >>
    /\ tgate = NoGate
    /\ tin = << >>
    /\ tout = << >>
    /\ tback = << >>

\* One pass of "for i in range(len(self.ddi))": the windows it slices.
SliceStage ==
    /\ pc = "inst"
    /\ stage < dsize
    /\ windows' = Append(windows, [conj |-> anc_cj(stage), rot |-> anc_rot(stage)])
    /\ stage' = stage + 1
    /\ UNCHANGED <<prog, lab>>

SpecAnc == InitAnc /\ [][SliceStage]_vars

\* ------------------------------------------------- single gates, on their own
Bits(k) == [0..(k - 1) -> {0, 1}]

\* The gate's own circuit run on the caller's registers.
RunGate(g, s) ==
    LET made == Construct(g)
    IN IF made.err # "none" THEN s ELSE RunOps(made.ops, s)

InitLab ==
    /\ pc = "start"
    /\ x = << >>
    /\ y = << >>
    /\ d = 0
    /\ mode = "SFSC"
    /\ starting_pos = << >>
    /\ qc = << >>
    /\ cregs = {}
    /\ ready = FALSE
    /\ measured = FALSE
    /\ err = "none"
    /\ hist = << >>
    /\ stage = 0
    /\ windows = << >>
    /\ tgate = NoGate
    /\ tin = << >>
    /\ tout = << >>
    /\ tback = << >>

\* extend(bitvec, result, i) on two registers of one size.
TestExtend ==
    /\ tgate = NoGate
    /\ \E size \in 1..MaxReg, i \in 1..MaxOrder :
         \E bits \in Bits(2 * size) :
            /\ tgate' = FSMGate("extend", <<Range(0, size), Range(size, 2 * size)>>,
                                << >>, "i" :> i)
            /\ tin' = bits
            /\ tout' = RunGate(tgate', bits)
    /\ UNCHANGED <<prog, slicing, tback>>

\* bitwise_cand_anc(ctrl, x, y, anc, result) with |y| = |result| = |x| + 1,
\* the ancillae and the result at 0.
TestCand ==
    /\ tgate = NoGate
    /\ \E size \in 1..MaxReg, asize \in 1..MaxReg :
         \E bits \in Bits(2 * size + 2) :
            LET rctrl == <<0>>
                rgx == Range(1, size + 1)
                rgy == Range(size + 1, 2 * size + 2)
                rganc == Range(2 * size + 2, 2 * size + 2 + asize)
                rgres == Range(2 * size + 2 + asize, 3 * size + 3 + asize)
            IN /\ asize \in {size, size + 1}
               /\ tgate' = FSMGate("bitwise_cand", <<rctrl, rgx, rgy, rganc, rgres>>,
                                   << >>, NoParams)
               /\ tin' = [q \in 0..(3 * size + 2 + asize) |->
                            IF q < 2 * size + 2 THEN bits[q] ELSE 0]
               /\ tout' = RunGate(tgate', tin')
    /\ UNCHANGED <<prog, slicing, tback>>

\* rot(x, k) on a register of any size, k a power of two.
TestRot ==
    /\ tgate = NoGate
    /\ \E size \in 1..MaxReg, e \in 1..MaxOrder :
         \E bits \in Bits(size) :
            /\ tgate' = FSMGate("rot", <<Range(0, size)>>, << >>, "k" :> 2 ^ (e - 1))
            /\ tin' = bits
            /\ tout' = RunGate(tgate', bits)
    /\ UNCHANGED <<prog, slicing, tback>>

\* rot(x, n - k) on the register rot(x, k) has just acted on.
TestRotBack ==
    /\ tgate.op = "rot"
    /\ tback = << >>
    /\ tgate.params["k"] < Len(tgate.regs[1])
    /\ tback' = RunGate(FSMGate("rot", tgate.regs, << >>,
                                "k" :> Len(tgate.regs[1]) - tgate.params["k"]),
                        tout)
    /\ UNCHANGED <<prog, slicing, tgate, tin, tout>>

\* unary_or(x, r) on a register and one more cell.
TestOr ==
    /\ tgate = NoGate
    /\ \E size \in 1..MaxReg :
         \E bits \in Bits(size + 1) :
            /\ tgate' = FSMGate("unary_or", <<Range(0, size), <<size>> >>, << >>, NoParams)
            /\ tin' = bits
            /\ tout' = RunGate(tgate', bits)
    /\ UNCHANGED <<prog, slicing, tback>>

NextLab == TestExtend \/ TestCand \/ TestRot \/ TestRotBack \/ TestOr

SpecGates == InitLab /\ [][NextLab]_vars

\* ------------------------------------------------------------------ claims
IsPowerOfTwo(v) == v >= 1 /\ 2 ^ Log2Floor(v) = v

BinaryText(s) == \A k \in 1..Len(s) : s[k] \in {"0", "1"}

\* The inputs the specification calls valid: equal-length binary strings of
\* length n = 2^k, 2 <= d <= n, and for FFP a starting position in 0..n.
ValidInput ==
    /\ Len(x) = Len(y)
    /\ IsPowerOfTwo(n)
    /\ BinaryText(x)
    /\ BinaryText(y)
    /\ 2 <= d
    /\ d <= n
    /\ mode = "FFP" => (starting_pos # << >> /\ starting_pos[1] \in 0..n)

\* The positions a mode lets a match start at.
ModeAllows(j) ==
    CASE mode = "FPM" -> j = 0
      [] mode = "FFP" -> starting_pos # << >> /\ j = starting_pos[1]
      [] OTHER -> TRUE

\* The naive scan: x[j:j+d] = y[j:j+d] at an allowed position j.
Oracle ==
    \E j \in 0..(n - d) :
        ModeAllows(j) /\ \A k \in 1..d : x[j + k] = y[j + k]

\* The Out cell after the gate list has run.
Found == RunCircuit(qc)[rout[1]]

\* The D-1 cells after the gate list has run, cell 0 first.
DCells == [k \in 0..n |-> RunCircuit(qc)[At(rddinit, k)]]

\* The circuit holds every gate of build(), in order.
FullyBuilt ==
    \E k \in 0..(Len(qc) - Len(BuildGates)) :
        SubSeq(qc, k + 1, k + Len(BuildGates)) = BuildGates

\* The gates the first build() added to a new instance.
FirstBuilt ==
    LET first == build(InitGates.gates).list
    IN SubSeq(first, Len(InitGates.gates) + 1, Len(first))

\* C1: on every valid input, after build() the gate list run on the
\* initialized registers leaves Out = 1 exactly when the naive scan finds a
\* position allowed by the mode at which x and y agree on d symbols.
OracleEquivalence ==
    (pc = "inst" /\ hist = <<"build">> /\ ValidInput) => (Found = 1 <=> Oracle)

\* C2: after build() on a valid input, revert() leaves a circuit with no
\* gates and the registers it was created with, and a following build()
\* succeeds and adds the gates the first build() added.
RevertRebuild ==
    /\ (pc = "inst" /\ ValidInput /\ hist = <<"build", "revert">>)
          => (err = "none" /\ qc = << >> /\ cregs = {"found", "begins"})
    /\ (pc = "inst" /\ ValidInput /\ hist = <<"build", "revert", "build">>)
          => (err = "none" /\ qc = FirstBuilt)

ReadyFreezes ==
    [][ /\ (ValidInput /\ hist = << >> /\ hist' = <<"build">>) => ready'
        /\ (ready /\ hist' # Append(hist, "revert")) => qc' = qc ]_vars

\* C5: a build() that raises leaves the gate list as it was before the call,
\* and the circuit not ready.
FailFast ==
    [][ (hist' = Append(hist, "build") /\ err' # "none")
            => (qc' = qc /\ ~ready') ]_vars

\* C6: an FSM is constructed only from non-empty strings of equal length, a
\* power of two, that are binary, with d >= 2 and, for FFP, a starting
\* position given; otherwise nothing is produced.
InputValidation ==
    /\ pc \in {"fsm", "inst"} =>
          /\ Len(x) > 0
          /\ Len(x) = Len(y)
          /\ IsPowerOfTwo(Len(x))
          /\ d >= 2
          /\ BinaryText(x)
          /\ BinaryText(y)
          /\ mode = "FFP" => starting_pos # << >>
    /\ pc = "rejected" => (qc = << >> /\ cregs = {})

\* C7: on every valid input construction succeeds, and the new instance's
\* D-1 register holds: FPM, cell 0 only; SFSC, all n+1 cells; FFP, the cell at
\* the starting position only, for every starting position 0..n.
DInitialization ==
    ValidInput =>
        /\ pc # "rejected"
        /\ (pc = "inst" /\ hist = << >>) =>
              \A k \in 0..n :
                  DCells[k] = (CASE mode = "FPM" -> (IF k = 0 THEN 1 ELSE 0)
                                 [] mode = "FFP" -> (IF k = starting_pos[1] THEN 1 ELSE 0)
                                 [] OTHER -> 1)

\* The cells of a window, as a set.
Cells(w) == {w[k] : k \in 1..Len(w)}

\* The windows sliced so far: each of its size, inside the pool, no two
\* sharing a cell; and once every stage is sliced, their sizes add up to the
\* pool width.
AncillaLayout ==
    /\ \A a \in 1..Len(windows) :
          /\ Len(windows[a].conj) = n
          /\ Len(windows[a].rot) = n \div 2
          /\ Cells(windows[a].conj) \cup Cells(windows[a].rot) \subseteq Cells(ranc)
          /\ Cells(windows[a].conj) \cap Cells(windows[a].rot) = {}
          /\ \A b \in 1..Len(windows) :
                a # b =>
                   (Cells(windows[a].conj) \cup Cells(windows[a].rot))
                   \cap (Cells(windows[b].conj) \cup Cells(windows[b].rot)) = {}
    /\ stage = dsize =>
          /\ Len(ranc) = 3 * (n \div 2) * dsize
          /\ Len(windows) * (n + (n \div 2)) = Len(ranc)
          /\ Cardinality(UNION {Cells(windows[a].conj) \cup Cells(windows[a].rot) :
                                  a \in 1..Len(windows)}) = Len(ranc)

\* C8: for every even n and every m, the ancilla windows of the stages
\* (n cells at offset i*3*floor(n/2), then floor(n/2) cells) lie inside the
\* pool, are pairwise disjoint, and their sizes add up to the pool width
\* 3*floor(n/2)*m.
AncillaPartitionEven == (n % 2 = 0) => AncillaLayout

\* C8 as stated, for every n.
AncillaPartitionAll == AncillaLayout

\* C8 witness: every stage of a string of four or more symbols and a d of
\* two or more bits has been sliced.
AllStagesSliced ==
    /\ n % 2 = 0
    /\ n >= 4
    /\ dsize >= 2
    /\ stage = dsize
    /\ Len(windows) = dsize

\* C9: after the controlled-AND gate has run on ancillae that started at 0,
\* every ancilla cell is 0 again, for ctrl = 0 and for ctrl = 1.
AncillaClean ==
    (tgate.op = "bitwise_cand" /\ Construct(tgate).err = "none")
        => \A k \in 1..Len(tgate.regs[4]) : tout[tgate.regs[4][k]] = 0

\* The permutations of 1..k.
Perms(k) == {f \in [1..k -> 1..k] : \A a, b \in 1..k : f[a] = f[b] => a = b}

\* C10: with the result register at 0, extend leaves
\* result[j] = lambda[j] AND lambda[j + 2^(i-1)] wherever j + 2^(i-1) < size,
\* whatever the order the positions are visited in, and lambda as it was.
ExtendCorrect ==
    (/\ tgate.op = "extend"
     /\ Construct(tgate).err = "none"
     /\ \A k \in 1..Len(tgate.regs[2]) : tin[tgate.regs[2][k]] = 0)
    => LET lam == tgate.regs[1]
           res == tgate.regs[2]
           size == Len(res)
           half == 2 ^ (tgate.params["i"] - 1)
           ops == Construct(tgate).ops
       IN /\ \A j \in 0..(size - 1) :
                j + half < size =>
                    tout[At(res, j)]
                        = (IF tin[At(lam, j)] = 1 /\ tin[At(lam, j + half)] = 1
                           THEN 1 ELSE 0)
          /\ \A k \in 1..size : tout[lam[k]] = tin[lam[k]]
          /\ \A f \in Perms(Len(ops)) :
                RunOps([k \in 1..Len(ops) |-> ops[f[k]]], tin) = tout

\* C10 witness: extend of order 2 on registers of four cells set a result
\* cell that started at 0.
ExtendSetACell ==
    /\ tgate.op = "extend"
    /\ tgate.params["i"] = 2
    /\ Len(tgate.regs[2]) = 4
    /\ \A k \in 1..4 : tin[tgate.regs[2][k]] = 0
    /\ \E k \in 1..4 : tout[tgate.regs[2][k]] = 1

\* C11: rot(x, k) followed by rot(x, n - k), for a power of two k < n,
\* leaves the register with the bits it started with.
RotRoundTrip ==
    (tgate.op = "rot" /\ tback # << >>) => tback = tin

\* The number of cells of a register that hold 1.
Ones(s, reg) == Cardinality({k \in 1..Len(reg) : s[reg[k]] = 1})

\* C12: after rot(x, k), k a power of two, cell j holds what cell
\* (j + k) mod |x| held before, and as many cells hold 1 as before.
RotLeft ==
    tgate.op = "rot" =>
        LET reg == tgate.regs[1]
            size == Len(reg)
        IN /\ \A j \in 0..(size - 1) :
                tout[At(reg, j)] = tin[At(reg, (j + tgate.params["k"]) % size)]
           /\ Ones(tout, reg) = Ones(tin, reg)

\* C13: bitwise_cand_anc with |anc| = |x| = |y| - 1 and result at 0 leaves
\* result[i+1] = x[i] AND y[i] when ctrl = 1 and result as it was when
\* ctrl = 0, with ctrl, x and y as they were; with other sizes it is rejected.
CandShifted ==
    tgate.op = "bitwise_cand" =>
        LET rctrl == tgate.regs[1]
            rgx == tgate.regs[2]
            rgy == tgate.regs[3]
            rganc == tgate.regs[4]
            rgres == tgate.regs[5]
            made == Construct(tgate)
        IN /\ (Len(rganc) # Len(rgx) \/ Len(rganc) # Len(rgy) - 1)
                 => made.err = "ValueError"
           /\ made.err = "none" =>
                 /\ tin[rctrl[1]] = 1 =>
                       \A i \in 0..(Len(rgx) - 1) :
                           tout[At(rgres, i + 1)]
                               = (IF tin[At(rgx, i)] = 1 /\ tin[At(rgy, i)] = 1
                                  THEN 1 ELSE 0)
                 /\ tin[rctrl[1]] = 0 =>
                       \A k \in 1..Len(rgres) : tout[rgres[k]] = tin[rgres[k]]
                 /\ \A k \in 1..Len(rgx) : tout[rgx[k]] = tin[rgx[k]]
                 /\ \A k \in 1..Len(rgy) : tout[rgy[k]] = tin[rgy[k]]
                 /\ tout[rctrl[1]] = tin[rctrl[1]]

\* C14: with r at 0, unary_or leaves r = 1 exactly when some cell of x
\* holds 1, and every cell of x as it was.
OrCorrect ==
    (tgate.op = "unary_or" /\ tin[tgate.regs[2][1]] = 0) =>
        LET reg == tgate.regs[1]
        IN /\ Construct(tgate).err = "none"
           /\ tout[tgate.regs[2][1]] = (IF Ones(tin, reg) > 0 THEN 1 ELSE 0)
           /\ \A k \in 1..Len(reg) : tout[reg[k]] = tin[reg[k]]

\* C14 witness: one cell only of a register of three is set, r started at 0
\* and ended at 1.
OrOfOneBit ==
    /\ tgate.op = "unary_or"
    /\ Len(tgate.regs[1]) = 3
    /\ Ones(tin, tgate.regs[1]) = 1
    /\ tin[tgate.regs[2][1]] = 0
    /\ tout[tgate.regs[2][1]] = 1

\* The gate list up to the end of the Extend loop of build(): the X gates
\* of the instance, REV, M and the Extend gates.
ChainList == SubSeq(qc, 1, Len(InitGates.gates) + dsize + 1)

\* The cells after that part of the list has run, and after all of it has.
ChainBits == RunCircuit(ChainList)
FinalBits == RunCircuit(qc)

\* Bit i of d, bit 0 the least significant.
DBit(i) == (d \div (2 ^ i)) % 2

\* What stage i is to leave in D_i when bit i of d is 1: cell c+1 holds
\* lambda_i[c] AND D_{i-1}[c], the whole rotated by 2^i to either side.
StageAnd(i) ==
    [c \in 0..n |->
        IF c = 0 THEN 0
        ELSE IF FinalBits[At(rli(i), c - 1)] = 1 /\ FinalBits[At(ddall(i), c - 1)] = 1
             THEN 1 ELSE 0]

StageRotated(i) ==
    \/ \A c \in 0..n : FinalBits[At(ddall(i + 1), c)] = StageAnd(i)[(c + 2 ^ i) % (n + 1)]
    \/ \A c \in 0..n : FinalBits[At(ddall(i + 1), c)] = StageAnd(i)[(c - 2 ^ i) % (n + 1)]

\* C15: after build() on a valid input, cell i of the d register holds bit
\* i of d, and for every stage i: D_i is (D_{i-1} AND lambda_i) rotated by
\* 2^i when bit i of d is 1 and D_{i-1} when it is 0, and the stages have
\* changed no cell of D-1 and of the lambda registers.
DChain ==
    (pc = "inst" /\ hist = <<"build">> /\ ValidInput) =>
        /\ \A i \in 0..(dsize - 1) : FinalBits[At(rd, i)] = DBit(i)
        /\ \A i \in 0..(dsize - 1) :
              IF DBit(i) = 1 THEN StageRotated(i)
              ELSE \A c \in 0..n :
                      FinalBits[At(ddall(i + 1), c)] = FinalBits[At(ddall(i), c)]
        /\ \A c \in 0..n : FinalBits[At(rddinit, c)] = ChainBits[At(rddinit, c)]
        /\ \A i \in 0..(dsize - 1) :
              \A c \in 0..(n - 1) : FinalBits[At(rli(i), c)] = ChainBits[At(rli(i), c)]

\* C16: in the lambda registers Match and the Extend gates of build() leave,
\* lambda_i[j] = lambda_{i-1}[j] for every i >= 1 and every j with
\* j + 2^(i-1) >= n.
LambdaEdges ==
    (pc = "inst" /\ hist = <<"build">> /\ ValidInput) =>
        \A i \in 1..(dsize - 1) :
            \A j \in 0..(n - 1) :
                j + 2 ^ (i - 1) >= n =>
                    ChainBits[At(rli(i), j)] = ChainBits[At(rli(i - 1), j)]

====
